---- MODULE Spec2Model ----
(***************************************************************************)
(* pwndbg <-> Binary Ninja integration.                                    *)
(*                                                                         *)
(*  - binja_script.py: the plugin running inside Binary Ninja: an XML-RPC  *)
(*    server bound to one BinaryView, the PC / breakpoint tags it keeps,   *)
(*    and the plugin commands start_server, stop_server, toggle_breakpoint *)
(*  - pwndbg/gdblib/hooks.py: the debugger's event handlers and the        *)
(*    wiring of cache groups to events                                     *)
(*  - pwndbg/commands/binja.py: the debugger-side commands and functions   *)
(***************************************************************************)
EXTENDS Bags, FiniteSets, Integers, Sequences, TLC

\* ------------------------------------------------------------------ bounds
\* addresses are 1..MaxAddr
MaxAddr == 2
\* connections waiting in the listener's backlog
MaxQueue == 1

None == "None"
Views == {"bv1", "bv2"}
Addrs == 1..MaxAddr

\* the two tag types of ServerHandler.init
PcTag == "pwndbg-pc"
BpTag == "pwndbg-bp"

VARIABLES
    tag_types,   \* bv.tag_types: per view, the names of the tag types created
    tags,        \* per view, the bag of tag references [type, addr, data]
    server,      \* the global `server`: None, or the view its handler holds
    listeners,   \* number of open listening sockets on (host, port)
    workers,     \* number of live serve_forever threads
    shutdown_request, \* the server's shutdown flag, set by shutdown()
    queue,       \* requests waiting to be accepted
    running,     \* requests being executed, each with its position
    ui,          \* the plugin-command thread: "idle" or "stopping"
    last,        \* what the last step completed: the operation and its outcome
    toggled,     \* per view, the addresses toggled an odd number of times (history)
    \* the debugger's event bus and caches (hooks.py)
    event,       \* the event being dispatched, or None
    todo,        \* the handlers of that event still to run, in order
    ran,         \* the handlers that ran in this dispatch, in order
    failed,      \* the handlers that raised in this dispatch (the log)
    cache,       \* per cache: "empty", "fresh", or "stale" (filled before the
                 \* event being dispatched, or before the last one)
    \* the debugger-side commands (commands/binja.py)
    reachable,   \* the analysis tool answers on its port
    alive,       \* the debuggee is running
    runtime_base, \* base of the image in the debuggee
    static_base, \* base of the image in the analysis tool
    cl_last,     \* the last command or function called, and its result
    \* the analysis database the RPC queries read (binja_script.py)
    funcs,       \* the functions of the view, in the order the database lists them
    comment,     \* the view's own (global) comment text
    q_last,      \* the last query answered, and its result
    \* the two threads of the plugin, call by call into the core
    th           \* per thread: the operation it executes and where it stands

tagVars == <<tag_types, tags, server, listeners, workers, shutdown_request,
             queue, running, ui, last, toggled>>
evVars == <<event, todo, ran, failed, cache>>
clVars == <<reachable, alive, runtime_base, static_base, cl_last>>

qVars == <<funcs, comment, q_last>>

thVars == <<th>>

vars == <<tagVars, evVars, clVars, qVars, thVars, thVars>>

\* ------------------------------------------------------- tag helpers
\* a tag reference as BNTagReference: the tag's type, its address, its data
TagRef(ty, addr, desc) == [type |-> ty, addr |-> addr, data |-> desc]

\* the references of B of one tag type
OfType(B, name) == [x \in {y \in BagToSet(B) : y.type = name} |-> B[x]]

\* the references of B at one address (`if t.addr == addr`)
AtAddr(B, addr) == [x \in {y \in BagToSet(B) : y.addr = addr} |-> B[x]]

\* the outcome of an operation on a view's tags: ok = FALSE is an exception
\* (bv.get_tag_type(name) is None, so `.handle` raises AttributeError)
Outcome(ok, tg, ret) == [ok |-> ok, tags |-> tg, ret |-> ret]

\* a mutant of add_auto_tag: BNAddTag and BNAddAutoDataTag each leave a reference
add_auto_tag_twice(ty, tg, addr, name, desc) ==
    IF name \notin ty
      THEN Outcome(FALSE, tg, EmptyBag)
      ELSE Outcome(TRUE, tg (+) SetToBag({TagRef(name, addr, desc)})
                            (+) SetToBag({TagRef(name, addr, desc)}), EmptyBag)

add_auto_tag(ty, tg, addr, name, desc) ==
    IF name \notin ty
      THEN Outcome(FALSE, tg, EmptyBag)
      ELSE Outcome(TRUE, tg (+) SetToBag({TagRef(name, addr, desc)}), EmptyBag)

\* a mutant of get_tag_refs: the references of every tag type are listed
get_tag_refs_all(ty, tg, name) ==
    IF name \notin ty
      THEN Outcome(FALSE, tg, EmptyBag)
      ELSE Outcome(TRUE, tg, tg)

\* all references of one tag type; ret carries the list (as a bag)
get_tag_refs(ty, tg, name) ==
    IF name \notin ty
      THEN Outcome(FALSE, tg, EmptyBag)
      ELSE Outcome(TRUE, tg, OfType(tg, name))

remove_tag_ref(tg, ref) == tg (-) SetToBag({ref})

\* `for t in refs: remove_tag_ref(bv, t)`
RECURSIVE RemoveEach(_, _)
RemoveEach(tg, refs) ==
    IF refs = EmptyBag
      THEN tg
      ELSE LET t == CHOOSE x \in BagToSet(refs) : TRUE
           IN  RemoveEach(remove_tag_ref(tg, t), refs (-) SetToBag({t}))

\* ServerHandler.init: create the tag types the view lacks
init(ty) == ty \cup {PcTag, BpTag}

\* a mutant of clear_pc_tag: the references are listed and none is removed
clear_pc_tag_keep(ty, tg) ==
    LET refs == get_tag_refs(ty, tg, PcTag)
    IN  IF ~refs.ok THEN Outcome(FALSE, tg, EmptyBag)
        ELSE Outcome(TRUE, tg, EmptyBag)

clear_pc_tag(ty, tg) ==
    LET refs == get_tag_refs(ty, tg, PcTag)
    IN  IF ~refs.ok THEN Outcome(FALSE, tg, EmptyBag)
        ELSE Outcome(TRUE, RemoveEach(tg, refs.ret), EmptyBag)

\* a mutant of update_pc_tag_add: the tag is created with the other tag type
update_pc_tag_add_bp(ty, tg, new_pc) == add_auto_tag(ty, tg, new_pc, BpTag, "current pc")

\* the second half of update_pc_tag, after self.clear_pc_tag()
update_pc_tag_add(ty, tg, new_pc) == add_auto_tag(ty, tg, new_pc, PcTag, "current pc")

\* [t.addr for t in get_tag_refs(bv, "pwndbg-bp")], as a bag of addresses
AddrsOf(refs) ==
    [a \in {t.addr : t \in BagToSet(refs)} |->
        BagCardinality(AtAddr(refs, a))]

get_bp_tags(ty, tg) ==
    LET refs == get_tag_refs(ty, tg, BpTag)
    IN  IF ~refs.ok THEN Outcome(FALSE, tg, EmptyBag)
        ELSE Outcome(TRUE, tg, AddrsOf(refs.ret))

\* a mutant of toggle_breakpoint: no `if t.addr == addr`, every reference goes
toggle_breakpoint_any_addr(ty, tg, addr) ==
    LET refs == get_tag_refs(ty, tg, BpTag)
    IN  IF ~refs.ok THEN Outcome(FALSE, tg, EmptyBag)
        ELSE LET hit   == refs.ret
                 found == hit # EmptyBag
                 tg1   == RemoveEach(tg, hit)
             IN  IF found THEN Outcome(TRUE, tg1, EmptyBag)
                 ELSE add_auto_tag(ty, tg1, addr, BpTag, "GDB breakpoint")

\* a mutant of toggle_breakpoint: a missing tag type is swallowed
toggle_breakpoint_silent(ty, tg, addr) ==
    LET refs == get_tag_refs(ty, tg, BpTag)
    IN  IF ~refs.ok THEN Outcome(TRUE, tg, EmptyBag)
        ELSE LET hit   == AtAddr(refs.ret, addr)
                 found == hit # EmptyBag
                 tg1   == RemoveEach(tg, hit)
             IN  IF found THEN Outcome(TRUE, tg1, EmptyBag)
                 ELSE add_auto_tag(ty, tg1, addr, BpTag, "GDB breakpoint")

\* a mutant of toggle_breakpoint: the tag is added also when one was found
toggle_breakpoint_always_add(ty, tg, addr) ==
    LET refs == get_tag_refs(ty, tg, BpTag)
    IN  IF ~refs.ok THEN Outcome(FALSE, tg, EmptyBag)
        ELSE LET hit == AtAddr(refs.ret, addr)
             IN  add_auto_tag(ty, RemoveEach(tg, hit), addr, BpTag, "GDB breakpoint")

toggle_breakpoint(ty, tg, addr) ==
    LET refs == get_tag_refs(ty, tg, BpTag)
    IN  IF ~refs.ok THEN Outcome(FALSE, tg, EmptyBag)
        ELSE LET hit   == AtAddr(refs.ret, addr)
                 found == hit # EmptyBag
                 tg1   == RemoveEach(tg, hit)
             IN  IF found THEN Outcome(TRUE, tg1, EmptyBag)
                 ELSE add_auto_tag(ty, tg1, addr, BpTag, "GDB breakpoint")

\* ------------------------------------------------------------- history
\* the operation a step completed, on which view and address, whether it
\* returned (ok) or raised, the view's tags before the step, and its result;
\* a step that completes no operation leaves NoOp
NoOp == [op |-> None]

\* srv is the global `server` before the step
Completed(op, bv, addr, r, before) ==
    [op |-> op, bv |-> bv, addr |-> addr, ok |-> r.ok, ret |-> r.ret,
     before |-> before, srv |-> server]

\* ------------------------------------------------- plugin commands
\* a mutant of start_server: no `if server is not None: return`
start_server_rebind(bv) ==
    /\ ui = "idle"
    /\ listeners < 3
    /\ tag_types' = [tag_types EXCEPT ![bv] = init(@)]
    /\ server' = bv
    /\ listeners' = listeners + 1
    /\ workers' = workers + 1
    /\ last' = Completed("start_server", bv, 0, Outcome(TRUE, tags[bv], EmptyBag),
                         tags[bv])
    /\ UNCHANGED <<evVars, clVars, qVars, thVars, tags, shutdown_request, queue, running, ui, toggled>>

\* a mutant of start_server: a running server is handed the new view
start_server_switch(bv) ==
    /\ ui = "idle"
    /\ tag_types' = [tag_types EXCEPT ![bv] = init(@)]
    /\ server' = bv
    /\ IF server # None
         THEN UNCHANGED <<listeners, workers>>
         ELSE /\ listeners' = listeners + 1
              /\ workers' = workers + 1
    /\ last' = Completed("start_server", bv, 0, Outcome(TRUE, tags[bv], EmptyBag),
                         tags[bv])
    /\ UNCHANGED <<evVars, clVars, qVars, thVars, tags, shutdown_request, queue, running, ui, toggled>>

start_server(bv) ==
    /\ ui = "idle"
    /\ tag_types' = [tag_types EXCEPT ![bv] = init(@)]
    /\ IF server # None
         THEN UNCHANGED <<server, listeners, workers>>
         ELSE /\ server' = bv
              /\ listeners' = listeners + 1
              /\ workers' = workers + 1
    /\ last' = Completed("start_server", bv, 0, Outcome(TRUE, tags[bv], EmptyBag),
                         tags[bv])
    /\ UNCHANGED <<evVars, clVars, qVars, thVars, tags, shutdown_request, queue, running, ui, toggled>>

\* stop_server up to server.shutdown(): the flag is set and the caller waits
stop_server(bv) ==
    /\ ui = "idle"
    /\ IF server = None
         THEN UNCHANGED <<shutdown_request, ui>>
         ELSE /\ shutdown_request' = TRUE
              /\ ui' = "stopping"
    /\ last' = IF server = None
                 THEN Completed("stop_server", bv, 0,
                                Outcome(TRUE, tags[bv], EmptyBag), tags[bv])
                 ELSE NoOp
    /\ UNCHANGED <<evVars, clVars, qVars, thVars, tag_types, tags, server, listeners, workers, queue, running,
                   toggled>>

\* a mutant of serve_forever_exit: the loop returns only with no connection waiting
serve_forever_exit_idle_only ==
    /\ workers > 0
    /\ shutdown_request
    /\ running = <<>>
    /\ queue = <<>>
    /\ workers' = workers - 1
    /\ shutdown_request' = FALSE
    /\ last' = NoOp
    /\ UNCHANGED <<evVars, clVars, qVars, thVars, tag_types, tags, server, listeners, queue, running, ui, toggled>>

\* serve_forever sees the flag between two requests and returns
serve_forever_exit ==
    /\ workers > 0
    /\ shutdown_request
    /\ running = <<>>
    /\ workers' = workers - 1
    /\ shutdown_request' = FALSE
    /\ last' = NoOp
    /\ UNCHANGED <<evVars, clVars, qVars, thVars, tag_types, tags, server, listeners, queue, running, ui, toggled>>

\* stop_server after shutdown() returned: server_close(); server = None
stop_server_close ==
    /\ ui = "stopping"
    /\ workers = 0
    /\ listeners' = listeners - 1
    /\ queue' = <<>>
    /\ server' = None
    /\ ui' = "idle"
    /\ last' = Completed("stop_server", server, 0,
                         Outcome(TRUE, tags[server], EmptyBag), tags[server])
    /\ UNCHANGED <<evVars, clVars, qVars, thVars, tag_types, tags, workers, shutdown_request, running, toggled>>

\* the plugin command "Toggle breakpoint here"
ToggleBreakpoint(bv, addr) ==
    /\ ui = "idle"
    /\ LET r == toggle_breakpoint(tag_types[bv], tags[bv], addr)
       IN  /\ tags' = [tags EXCEPT ![bv] = r.tags]
           /\ last' = Completed("toggle_breakpoint", bv, addr, r, tags[bv])
           /\ toggled' = IF r.ok
                           THEN [toggled EXCEPT ![bv] =
                                   IF addr \in @ THEN @ \ {addr} ELSE @ \cup {addr}]
                           ELSE toggled
    /\ UNCHANGED <<evVars, clVars, qVars, thVars, tag_types, server, listeners, workers, shutdown_request, queue,
                   running, ui>>

\* ------------------------------------------------------- the RPC server
Requests ==
    {[op |-> "clear_pc_tag", addr |-> 0], [op |-> "get_bp_tags", addr |-> 0]}
    \cup {[op |-> "update_pc_tag", addr |-> a] : a \in Addrs}

\* the debugger (a client) connects and sends one request
Call(req) ==
    /\ listeners > 0
    /\ Len(queue) < MaxQueue
    /\ queue' = Append(queue, req)
    /\ last' = NoOp
    /\ UNCHANGED <<evVars, clVars, qVars, thVars, tag_types, tags, server, listeners, workers, shutdown_request,
                   running, ui, toggled>>

\* a mutant of CanAccept: a threading server takes a request while one runs
CanAcceptThreaded == Len(running) < 2

\* SimpleXMLRPCServer handles a request inside the serve_forever loop itself:
\* the next one is taken only after the current one returned
CanAccept == running = <<>>

Accept ==
    /\ workers > 0
    /\ ~shutdown_request
    /\ CanAccept
    /\ queue # <<>>
    /\ running' = Append(running, [op |-> Head(queue).op, addr |-> Head(queue).addr,
                                   pc |-> "start"])
    /\ queue' = Tail(queue)
    /\ last' = NoOp
    /\ UNCHANGED <<evVars, clVars, qVars, thVars, tag_types, tags, server, listeners, workers, shutdown_request,
                   ui, toggled>>

Drop(s, i) == SubSeq(s, 1, i - 1) \o SubSeq(s, i + 1, Len(s))

\* the call returns (ok) or raises, which the server answers with a Fault
Return(i, r) ==
    /\ tags' = [tags EXCEPT ![server] = r.tags]
    /\ running' = Drop(running, i)
    /\ last' = Completed(running[i].op, server, running[i].addr, r, tags[server])

RpcClearPcTag(i) ==
    /\ running[i].op = "clear_pc_tag"
    /\ Return(i, clear_pc_tag(tag_types[server], tags[server]))
    /\ UNCHANGED <<evVars, clVars, qVars, thVars, tag_types, server, listeners, workers, shutdown_request, queue,
                   ui, toggled>>

RpcGetBpTags(i) ==
    /\ running[i].op = "get_bp_tags"
    /\ Return(i, get_bp_tags(tag_types[server], tags[server]))
    /\ UNCHANGED <<evVars, clVars, qVars, thVars, tag_types, server, listeners, workers, shutdown_request, queue,
                   ui, toggled>>

\* update_pc_tag, first statement: self.clear_pc_tag()
RpcUpdatePcTagClear(i) ==
    /\ running[i].op = "update_pc_tag"
    /\ running[i].pc = "start"
    /\ LET r == clear_pc_tag(tag_types[server], tags[server])
       IN  IF r.ok
             THEN /\ tags' = [tags EXCEPT ![server] = r.tags]
                  /\ running' = [running EXCEPT ![i].pc = "cleared"]
                  /\ last' = NoOp
             ELSE Return(i, r)
    /\ UNCHANGED <<evVars, clVars, qVars, thVars, tag_types, server, listeners, workers, shutdown_request, queue,
                   ui, toggled>>

\* update_pc_tag, second statement: add_auto_tag(...)
RpcUpdatePcTagAdd(i) ==
    /\ running[i].op = "update_pc_tag"
    /\ running[i].pc = "cleared"
    /\ Return(i, update_pc_tag_add(tag_types[server], tags[server], running[i].addr))
    /\ UNCHANGED <<evVars, clVars, qVars, thVars, tag_types, server, listeners, workers, shutdown_request, queue,
                   ui, toggled>>

\* a step of an RPC method on the server's worker
RpcStep ==
    \E i \in 1..Len(running) :
        \/ RpcClearPcTag(i)
        \/ RpcGetBpTags(i)
        \/ RpcUpdatePcTagClear(i)
        \/ RpcUpdatePcTagAdd(i)

\* the debugger is one client and calls synchronously: its next request is
\* sent after the answer to the previous one
CallSync(req) ==
    /\ queue = <<>>
    /\ running = <<>>
    /\ Call(req)

\* plugin commands on either view, one synchronous client
TagNext ==
    \/ \E bv \in Views : start_server(bv)
    \/ \E bv \in Views : stop_server(bv)
    \/ serve_forever_exit
    \/ stop_server_close
    \/ \E bv \in Views, a \in Addrs : ToggleBreakpoint(bv, a)
    \/ \E req \in Requests : CallSync(req)
    \/ Accept
    \/ \E i \in 1..Len(running) : RpcClearPcTag(i)
    \/ \E i \in 1..Len(running) : RpcGetBpTags(i)
    \/ \E i \in 1..Len(running) : RpcUpdatePcTagClear(i)
    \/ \E i \in 1..Len(running) : RpcUpdatePcTagAdd(i)

\* the view the concurrent clients' server is started on
RpcViews == {"bv1"}

\* several clients send requests at any time; plugin commands on one view
RpcNext ==
    \/ \E bv \in RpcViews : start_server(bv)
    \/ \E bv \in RpcViews : stop_server(bv)
    \/ serve_forever_exit
    \/ stop_server_close
    \/ \E bv \in RpcViews, a \in Addrs : ToggleBreakpoint(bv, a)
    \/ \E req \in Requests : Call(req)
    \/ Accept
    \/ \E i \in 1..Len(running) : RpcClearPcTag(i)
    \/ \E i \in 1..Len(running) : RpcGetBpTags(i)
    \/ \E i \in 1..Len(running) : RpcUpdatePcTagClear(i)
    \/ \E i \in 1..Len(running) : RpcUpdatePcTagAdd(i)

\* ------------------------------------- the two threads, call by call
\* toggle_breakpoint runs on the thread of the plugin commands, the RPC
\* methods on the serve_forever thread; each call into the core is one step
Threads == {"ui", "worker"}
ThView == "bv1"
OpsOf(t) ==
    IF t = "ui" THEN {"toggle_breakpoint"}
    ELSE {"clear_pc_tag", "update_pc_tag", "get_bp_tags"}
TypeOf(op) == IF op \in {"clear_pc_tag", "update_pc_tag"} THEN PcTag ELSE BpTag
DescOf(op) == IF op = "update_pc_tag" THEN "current pc" ELSE "GDB breakpoint"
ArgsOf(op) == IF op \in {"toggle_breakpoint", "update_pc_tag"} THEN Addrs ELSE {0}

Idle == [op |-> None, addr |-> 0, at |-> "idle", n |-> 0, refs |-> <<>>,
         found |-> FALSE]

\* the orders in which the core may list the references of a bag
Enumerations(B) ==
    LET n == BagCardinality(B)
    IN  {s \in [1..n -> BagToSet(B)] :
            \A x \in BagToSet(B) : Cardinality({i \in 1..n : s[i] = x}) = B[x]}

\* what ref_ptr[i] may read behind the end of the array the core returned
Garbage == {TagRef(ty, a, "?") : ty \in {PcTag, BpTag}, a \in Addrs}

\* the operation is called
ThBegin(t, op, addr) ==
    /\ th[t].at = "idle"
    /\ th' = [th EXCEPT ![t] = [Idle EXCEPT !.op = op, !.addr = addr,
                                            !.at = "count"]]
    /\ UNCHANGED <<tagVars, evVars, clVars, qVars>>

\* get_tag_refs: bv.get_tag_type(ty).handle, BNGetAllTagReferencesOfTypeCount
ThCount(t) ==
    /\ th[t].at = "count"
    /\ LET r == get_tag_refs(tag_types[ThView], tags[ThView], TypeOf(th[t].op))
       IN  th' = [th EXCEPT ![t] =
                    IF r.ok THEN [@ EXCEPT !.n = BagCardinality(r.ret),
                                           !.at = "refs"]
                    ELSE Idle]
    /\ UNCHANGED <<tagVars, evVars, clVars, qVars>>

\* get_tag_refs: BNGetAllTagReferencesOfType, [ref_ptr[i] for i in range(count)]
ThRefs(t) ==
    /\ th[t].at = "refs"
    /\ LET r == get_tag_refs(tag_types[ThView], tags[ThView], TypeOf(th[t].op))
       IN  \E s \in Enumerations(r.ret), g \in Garbage :
              th' = [th EXCEPT ![t] =
                       [@ EXCEPT !.refs = [i \in 1..th[t].n |->
                                             IF i <= Len(s) THEN s[i] ELSE g],
                                 !.at = IF th[t].op = "get_bp_tags"
                                          THEN "return" ELSE "loop"]]
    /\ UNCHANGED <<tagVars, evVars, clVars, qVars>>

\* one turn of `for t in refs`: remove_tag_ref, in toggle_breakpoint under
\* `if t.addr == addr`
ThLoop(t) ==
    /\ th[t].at = "loop"
    /\ th[t].refs # <<>>
    /\ LET ref == Head(th[t].refs)
           hit == th[t].op # "toggle_breakpoint" \/ ref.addr = th[t].addr
       IN  /\ tags' = [tags EXCEPT ![ThView] =
                          IF hit THEN remove_tag_ref(@, ref) ELSE @]
           /\ th' = [th EXCEPT ![t] =
                        [@ EXCEPT !.refs = Tail(th[t].refs),
                                  !.found = th[t].found \/ hit]]
    /\ UNCHANGED <<tag_types, server, listeners, workers, shutdown_request,
                   queue, running, ui, last, toggled, evVars, clVars, qVars>>

\* the loop is over: update_pc_tag goes on to add its tag, toggle_breakpoint
\* does `if not found`, clear_pc_tag returns
ThLoopEnd(t) ==
    /\ th[t].at = "loop"
    /\ th[t].refs = <<>>
    /\ th' = [th EXCEPT ![t] =
                 IF \/ th[t].op = "update_pc_tag"
                    \/ th[t].op = "toggle_breakpoint" /\ ~th[t].found
                   THEN [@ EXCEPT !.at = "add"]
                   ELSE Idle]
    /\ UNCHANGED <<tagVars, evVars, clVars, qVars>>

\* add_auto_tag
ThAdd(t) ==
    /\ th[t].at = "add"
    /\ LET r == add_auto_tag(tag_types[ThView], tags[ThView], th[t].addr,
                             TypeOf(th[t].op), DescOf(th[t].op))
       IN  tags' = [tags EXCEPT ![ThView] = r.tags]
    /\ th' = [th EXCEPT ![t] = Idle]
    /\ UNCHANGED <<tag_types, server, listeners, workers, shutdown_request,
                   queue, running, ui, last, toggled, evVars, clVars, qVars>>

\* get_bp_tags returns [t.addr for t in refs]
ThReturn(t) ==
    /\ th[t].at = "return"
    /\ th' = [th EXCEPT ![t] = Idle]
    /\ UNCHANGED <<tagVars, evVars, clVars, qVars>>

\* a step of thread t inside an operation
ThStep(t) ==
    \/ ThCount(t)
    \/ ThRefs(t)
    \/ ThLoop(t)
    \/ ThLoopEnd(t)
    \/ ThAdd(t)
    \/ ThReturn(t)

ThNext ==
    \/ \E t \in Threads : \E op \in OpsOf(t) : \E addr \in ArgsOf(op) :
          ThBegin(t, op, addr)
    \/ \E t \in Threads : ThCount(t)
    \/ \E t \in Threads : ThRefs(t)
    \/ \E t \in Threads : ThLoop(t)
    \/ \E t \in Threads : ThLoopEnd(t)
    \/ \E t \in Threads : ThAdd(t)
    \/ \E t \in Threads : ThReturn(t)

\* ------------------------------------------------------- the event bus
\* pwndbg.gdblib.events.*; EventType.START, STOP, EXIT and NEW_MODULE are the
\* events start, stop, exit and new_objfile
Events == {"start", "stop", "exit", "new_objfile", "cont", "thread",
           "before_prompt", "mem_changed", "reg_changed"}

\* HandlerPriority: the lower runs first
CACHE_CLEAR == 0
LOW == 1

Reg(h, e, prio, clears) == [h |-> h, e |-> e, prio |-> prio, clears |-> clears]

\* a mutant of HookRegistrations: on_stop is registered for EventType.START
HookRegistrationsStopOnStart == <<
    Reg("update_typeinfo", "stop", LOW, None),
    Reg("update_typeinfo", "start", LOW, None),
    Reg("update_typeinfo", "new_objfile", LOW, None),
    Reg("update_arch", "new_objfile", LOW, None),
    Reg("update_arch", "stop", LOW, None),
    Reg("update_arch", "start", LOW, None),
    Reg("reset_config", "new_objfile", LOW, None),
    Reg("on_start", "start", LOW, None),
    Reg("on_exit", "exit", LOW, None),
    Reg("on_stop", "start", LOW, None) >>

\* the event_handler decorators in the order they are applied: for one
\* function bottom-up, the functions top-down
HookRegistrations == <<
    Reg("update_typeinfo", "stop", LOW, None),
    Reg("update_typeinfo", "start", LOW, None),
    Reg("update_typeinfo", "new_objfile", LOW, None),
    Reg("update_arch", "new_objfile", LOW, None),
    Reg("update_arch", "stop", LOW, None),
    Reg("update_arch", "start", LOW, None),
    Reg("reset_config", "new_objfile", LOW, None),
    Reg("on_start", "start", LOW, None),
    Reg("on_exit", "exit", LOW, None),
    Reg("on_stop", "stop", LOW, None) >>

GroupNames == <<"stop", "exit", "objfile", "start", "cont", "thread", "prompt",
                "forever">>

\* a mutant of GroupEvents: the "stop" group misses events.stop
GroupEventsNoStop ==
    [stop    |-> <<"mem_changed", "reg_changed">>,
     exit    |-> <<"exit">>,
     objfile |-> <<"new_objfile">>,
     start   |-> <<"start">>,
     cont    |-> <<"cont", "mem_changed", "reg_changed">>,
     thread  |-> <<"thread">>,
     prompt  |-> <<"before_prompt">>,
     forever |-> <<>>]

\* a mutant of GroupEvents: the "cont" group misses mem_changed and reg_changed
GroupEventsContOnly ==
    [stop    |-> <<"stop", "mem_changed", "reg_changed">>,
     exit    |-> <<"exit">>,
     objfile |-> <<"new_objfile">>,
     start   |-> <<"start">>,
     cont    |-> <<"cont">>,
     thread  |-> <<"thread">>,
     prompt  |-> <<"before_prompt">>,
     forever |-> <<>>]

\* the mapping given to connect_clear_caching_events
GroupEvents ==
    [stop    |-> <<"stop", "mem_changed", "reg_changed">>,
     exit    |-> <<"exit">>,
     objfile |-> <<"new_objfile">>,
     start   |-> <<"start">>,
     cont    |-> <<"cont", "mem_changed", "reg_changed">>,
     thread  |-> <<"thread">>,
     prompt  |-> <<"before_prompt">>,
     forever |-> <<>>]

\* connect_clear_caching_events: for each group and each of its events, one
\* handler at the given priority that clears the group's caches
RECURSIVE ClearRegs(_, _, _)
ClearRegs(groups, evs, priority) ==
    IF groups = <<>> THEN <<>>
    ELSE IF evs = <<>>
      THEN IF Len(groups) = 1 THEN <<>>
           ELSE ClearRegs(Tail(groups), GroupEvents[groups[2]], priority)
      ELSE <<Reg("clear", Head(evs), priority, Head(groups))>>
           \o ClearRegs(groups, Tail(evs), priority)

connect_clear_caching_events(priority) ==
    ClearRegs(GroupNames, GroupEvents[GroupNames[1]], priority)

\* every registration, in the order hooks.py makes them
Registry == HookRegistrations \o connect_clear_caching_events(CACHE_CLEAR)

\* the order of two registrations: by priority, then by registration index
Before(i, j) ==
    \/ Registry[i].prio < Registry[j].prio
    \/ Registry[i].prio = Registry[j].prio /\ i < j

RECURSIVE Ordered(_)
Ordered(S) ==
    IF S = {} THEN <<>>
    ELSE LET m == CHOOSE i \in S : \A j \in S \ {i} : Before(i, j)
         IN  <<Registry[m]>> \o Ordered(S \ {m})

\* the handlers of event e, in the order dispatch calls them
HandlersFor(e) == Ordered({i \in 1..Len(Registry) : Registry[i].e = e})

\* the caches of the model and the group each is subscribed to
CacheGroup == [c_stop |-> "stop", c_cont |-> "cont", c_start |-> "start",
               c_forever |-> "forever"]
Caches == DOMAIN CacheGroup

\* a mutant of AfterRaise: the exception ends the dispatch
AfterRaiseAbort(td) == <<>>

\* what is left to run after a handler raised: the exception is logged and
\* dispatch goes on with the next handler
AfterRaise(td) == Tail(td)

\* the debugger reports event e: dispatch starts; what the caches hold now
\* was cached before this event
FireEvent(e) ==
    /\ event = None
    /\ event' = e
    /\ todo' = HandlersFor(e)
    /\ ran' = <<>>
    /\ failed' = {}
    /\ cache' = [c \in Caches |-> IF cache[c] = "fresh" THEN "stale" ELSE cache[c]]
    /\ UNCHANGED <<tagVars, clVars, qVars, thVars>>

\* dispatch calls the next handler, which returns or raises
RunHandler(raises) ==
    /\ event # None
    /\ todo # <<>>
    /\ LET h == Head(todo)
       IN  /\ ran' = Append(ran, h.h)
           /\ IF h.clears # None
                THEN /\ ~raises
                     /\ cache' = [c \in Caches |->
                                    IF CacheGroup[c] = h.clears THEN "empty"
                                    ELSE cache[c]]
                     /\ todo' = Tail(todo)
                     /\ UNCHANGED failed
                ELSE /\ UNCHANGED cache
                     /\ IF raises
                          THEN /\ failed' = failed \cup {h.h}
                               /\ todo' = AfterRaise(todo)
                          ELSE /\ todo' = Tail(todo)
                               /\ UNCHANGED failed
    /\ UNCHANGED <<event, tagVars, clVars, qVars, thVars>>

\* dispatch returns to the debugger
EndDispatch ==
    /\ event # None
    /\ todo = <<>>
    /\ event' = None
    /\ ran' = <<>>
    /\ failed' = {}
    /\ UNCHANGED <<todo, cache, tagVars, clVars, qVars, thVars>>

\* a cached function is called: an empty cache is filled, a filled one answers
UseCache(c) ==
    /\ cache[c] = "empty"
    /\ cache' = [cache EXCEPT ![c] = "fresh"]
    /\ UNCHANGED <<event, todo, ran, failed, tagVars, clVars, qVars, thVars>>

EvNext ==
    \/ \E e \in Events : FireEvent(e)
    \/ \E raises \in BOOLEAN : RunHandler(raises)
    \/ EndDispatch
    \/ \E c \in Caches : UseCache(c)

\* ------------------------------------------------ the debugger's commands
\* bases and addresses are 0..MaxBase
MaxBase == 2
Bases == 0..MaxBase

\* a result: None, an integer, or an exception reaching the caller
RNone == [kind |-> "none", val |-> 0]
RInt(n) == [kind |-> "int", val |-> n]
RRaise == [kind |-> "raise", val |-> 0]

\* the names and expressions asked for, and what the analysis tool answers:
\* a static address, or None
Names == {"main", "data", "nosuch"}
Answer(name) ==
    IF name = "main" THEN RInt(static_base + 1)
    ELSE IF name = "data" THEN RInt(static_base + 2)
    ELSE RNone

\* a call through the XML-RPC proxy _bn: with nothing listening it raises
\* ConnectionRefusedError
Proxy(r) == IF reachable THEN r ELSE RRaise

\* with_bn(): the decorated function runs only if the tool can be reached, and
\* the fallback (None) is returned otherwise
with_bn(r) == IF reachable THEN r ELSE RNone

\* a mutant of r2l: the two bases are swapped
r2l_swapped_bases(addr) == addr - runtime_base + static_base

\* r2l: a static address as a runtime address
r2l(addr) == addr - static_base + runtime_base

\* l2r: a runtime address as a static address
l2r(addr) == addr - runtime_base + static_base

\* bn_sym below its decorators
bn_sym_body(name) ==
    LET addr == Proxy(Answer(name))
    IN  IF addr.kind = "int" THEN RInt(r2l(addr.val)) ELSE addr

\* a mutant of bn_sym: no @with_bn()
bn_sym_undecorated(name) == bn_sym_body(name)

bn_sym(name) == with_bn(bn_sym_body(name))

\* bn_eval: the registers and piebase go along as magic variables
bn_eval(expr) == with_bn(Proxy(Answer(expr)))

\* integration.binja.navigate_to, itself under with_bn()
navigate_to(addr) == with_bn(Proxy(RNone))

\* bn_sync: OnlyWhenRunning, then navigate_to(pc); it returns None
bn_sync ==
    IF ~alive THEN RNone
    ELSE LET r == navigate_to(runtime_base) IN IF r.kind = "raise" THEN r ELSE RNone

Called(op, arg, r) == [op |-> op, arg |-> arg, res |-> r, reach |-> reachable]

\* the analysis tool (its server) starts or goes away
SetReachable(b) ==
    /\ reachable # b
    /\ reachable' = b
    /\ UNCHANGED <<alive, runtime_base, static_base, cl_last, tagVars, evVars, qVars, thVars>>

\* the debuggee starts or exits
SetAlive(b) ==
    /\ alive # b
    /\ alive' = b
    /\ UNCHANGED <<reachable, runtime_base, static_base, cl_last, tagVars, evVars, qVars, thVars>>

BnSync ==
    /\ cl_last' = Called("bn_sync", "", bn_sync)
    /\ UNCHANGED <<reachable, alive, runtime_base, static_base, tagVars, evVars, qVars, thVars>>

BnSym(name) ==
    /\ cl_last' = Called("bn_sym", name, bn_sym(name))
    /\ UNCHANGED <<reachable, alive, runtime_base, static_base, tagVars, evVars, qVars, thVars>>

BnEval(expr) ==
    /\ cl_last' = Called("bn_eval", expr, bn_eval(expr))
    /\ UNCHANGED <<reachable, alive, runtime_base, static_base, tagVars, evVars, qVars, thVars>>

ClNext ==
    \/ \E b \in BOOLEAN : SetReachable(b)
    \/ \E b \in BOOLEAN : SetAlive(b)
    \/ BnSync
    \/ \E name \in Names : BnSym(name)
    \/ \E expr \in Names : BnEval(expr)

\* ------------------------------------------- the analysis database queries
\* a function covers the addresses start .. end-1, 0 <= start < end <= MaxEnd
MaxEnd == 3
\* functions in a view
MaxFuncs == 2
\* characters in one comment text
MaxText == 3

QAddrs == 0..MaxEnd
FuncNames == {"main", "helper"}
NL == "\n"
Chars == {"a", NL}

Func(name, start, end, text) ==
    [name |-> name, start |-> start, end |-> end, comment |-> text]

RECURSIVE SeqsUpTo(_, _)
\* the sequences over S of length at most n
SeqsUpTo(S, n) ==
    IF n = 0 THEN {<<>>}
    ELSE LET shorter == SeqsUpTo(S, n - 1)
         IN  shorter \cup {Append(s, x) : s \in shorter, x \in S}

Texts == SeqsUpTo(Chars, MaxText)

\* Python's None where a function, and where a tuple, is expected
NoFunc == Func(None, -1, -1, <<>>)
Absent == <<>>

\* any functions, overlapping or not, without comments
FuncPool ==
    {f \in [name : FuncNames, start : QAddrs, end : QAddrs, comment : {<<>>}] :
        f.start < f.end}

Layouts == SeqsUpTo(FuncPool, MaxFuncs)

Contains(f, addr) == f.start <= addr /\ addr < f.end

RECURSIVE get_functions_containing(_, _)
\* bv.get_functions_containing(addr), in the order of the database
get_functions_containing(fs, addr) ==
    IF fs = <<>> THEN <<>>
    ELSE LET rest == get_functions_containing(Tail(fs), addr)
         IN  IF Contains(Head(fs), addr) THEN <<Head(fs)>> \o rest ELSE rest

RECURSIVE MinByStart(_)
\* min(funcs, key=lambda f: f.start): the first of the least ones
MinByStart(fs) ==
    IF Len(fs) = 1 THEN Head(fs)
    ELSE LET m == MinByStart(Tail(fs))
         IN  IF m.start < Head(fs).start THEN m ELSE Head(fs)

\* a mutant of get_widest_func: the first function listed
get_widest_func_first(fs, addr) ==
    LET found == get_functions_containing(fs, addr)
    IN  IF Len(found) = 0 THEN NoFunc ELSE Head(found)

get_widest_func(fs, addr) ==
    LET found == get_functions_containing(fs, addr)
    IN  IF Len(found) = 0 THEN NoFunc ELSE MinByStart(found)

get_func_info(fs, addr) ==
    LET func == get_widest_func(fs, addr)
    IN  IF func = NoFunc THEN Absent ELSE <<func.name, func.start>>

\* a mutant of get_function_at: any function containing addr
get_function_at_containing(fs, addr) == get_widest_func(fs, addr)

RECURSIVE get_function_at(_, _)
\* bv.get_function_at(addr): the function that starts at addr
get_function_at(fs, addr) ==
    IF fs = <<>> THEN NoFunc
    ELSE IF Head(fs).start = addr THEN Head(fs)
         ELSE get_function_at(Tail(fs), addr)

\* the types of the function are left out: the return descriptor is known by
\* the function name it carries
get_func_type(fs, addr) ==
    LET f == get_function_at(fs, addr)
    IN  IF f = NoFunc THEN Absent ELSE <<f.name>>

\* a mutant of sorted_by_start: the order of the database
unsorted(fs) == fs

RECURSIVE Insert(_, _)
\* f put into the sorted fs, after the functions of the same start
Insert(f, fs) ==
    IF fs = <<>> THEN <<f>>
    ELSE IF f.start < Head(fs).start THEN <<f>> \o fs
         ELSE <<Head(fs)>> \o Insert(f, Tail(fs))

RECURSIVE sorted_by_start(_)
\* sorted(fs, key=lambda f: f.start), stable
sorted_by_start(fs) ==
    IF fs = <<>> THEN <<>>
    ELSE Insert(fs[Len(fs)], sorted_by_start(SubSeq(fs, 1, Len(fs) - 1)))

RECURSIVE split(_)
\* s.split("\n"): one entry more than there are newlines
split(s) ==
    IF \A i \in DOMAIN s : s[i] # NL THEN <<s>>
    ELSE LET i == CHOOSE k \in DOMAIN s :
                      s[k] = NL /\ \A j \in 1..(k - 1) : s[j] # NL
         IN  <<SubSeq(s, 1, i - 1)>> \o split(SubSeq(s, i + 1, Len(s)))

RECURSIVE Join(_, _)
\* ret += f.get_comment_at(addr).split("\n"), for f in fs; every address of
\* a function carries the function's text
Join(fs, addr) ==
    IF fs = <<>> THEN <<>>
    ELSE split(Head(fs).comment) \o Join(Tail(fs), addr)

Marker == <<"/", "/", " ">>

RECURSIVE Marked(_)
\* ["// " + x for x in ret if x]
Marked(ret) ==
    IF ret = <<>> THEN <<>>
    ELSE IF Head(ret) = <<>> THEN Marked(Tail(ret))
         ELSE <<Marker \o Head(ret)>> \o Marked(Tail(ret))

get_comments(fs, text, addr) ==
    LET ret == Join(sorted_by_start(get_functions_containing(fs, addr)), addr)
                   \o split(text)
    IN  Marked(ret)

Asked(op, addr, ret) == [op |-> op, addr |-> addr, ret |-> ret]

GetFuncInfo(addr) ==
    /\ q_last' = Asked("get_func_info", addr, get_func_info(funcs, addr))
    /\ UNCHANGED <<funcs, comment, tagVars, evVars, clVars, thVars>>

GetFuncType(addr) ==
    /\ q_last' = Asked("get_func_type", addr, get_func_type(funcs, addr))
    /\ UNCHANGED <<funcs, comment, tagVars, evVars, clVars, thVars>>

GetComments(addr) ==
    /\ q_last' = Asked("get_comments", addr, get_comments(funcs, comment, addr))
    /\ UNCHANGED <<funcs, comment, tagVars, evVars, clVars, thVars>>

QNext ==
    \/ \E addr \in QAddrs : GetFuncInfo(addr)
    \/ \E addr \in QAddrs : GetFuncType(addr)

CommNext == \E addr \in QAddrs : GetComments(addr)

\* binja_script.py loaded (server = None, views untouched); hooks.py loaded
\* (init() ran, no event yet); the analysis tool not started
Init ==
    /\ tag_types = [v \in Views |-> {}]
    /\ tags = [v \in Views |-> EmptyBag]
    /\ server = None
    /\ listeners = 0
    /\ workers = 0
    /\ shutdown_request = FALSE
    /\ queue = <<>>
    /\ running = <<>>
    /\ ui = "idle"
    /\ last = NoOp
    /\ toggled = [v \in Views |-> {}]
    /\ event = None
    /\ todo = <<>>
    /\ ran = <<>>
    /\ failed = {}
    /\ cache = [c \in Caches |-> "empty"]
    /\ reachable = FALSE
    /\ alive = FALSE
    /\ runtime_base = 0
    /\ static_base = 0
    /\ cl_last = [op |-> None]
    /\ funcs = <<>>
    /\ comment = <<>>
    /\ q_last = [op |-> None]
    /\ th = [t \in Threads |-> Idle]

\* the same, for any pair of bases
ClInit ==
    /\ tag_types = [v \in Views |-> {}]
    /\ tags = [v \in Views |-> EmptyBag]
    /\ server = None
    /\ listeners = 0
    /\ workers = 0
    /\ shutdown_request = FALSE
    /\ queue = <<>>
    /\ running = <<>>
    /\ ui = "idle"
    /\ last = NoOp
    /\ toggled = [v \in Views |-> {}]
    /\ event = None
    /\ todo = <<>>
    /\ ran = <<>>
    /\ failed = {}
    /\ cache = [c \in Caches |-> "empty"]
    /\ reachable = FALSE
    /\ alive = FALSE
    /\ runtime_base \in Bases
    /\ static_base \in Bases
    /\ cl_last = [op |-> None]
    /\ funcs = <<>>
    /\ comment = <<>>
    /\ q_last = [op |-> None]
    /\ th = [t \in Threads |-> Idle]

\* a view with any functions and no comments
QInit ==
    /\ tag_types = [v \in Views |-> {}]
    /\ tags = [v \in Views |-> EmptyBag]
    /\ server = None
    /\ listeners = 0
    /\ workers = 0
    /\ shutdown_request = FALSE
    /\ queue = <<>>
    /\ running = <<>>
    /\ ui = "idle"
    /\ last = NoOp
    /\ toggled = [v \in Views |-> {}]
    /\ event = None
    /\ todo = <<>>
    /\ ran = <<>>
    /\ failed = {}
    /\ cache = [c \in Caches |-> "empty"]
    /\ reachable = FALSE
    /\ alive = FALSE
    /\ runtime_base = 0
    /\ static_base = 0
    /\ cl_last = [op |-> None]
    /\ funcs \in Layouts
    /\ comment = <<>>
    /\ q_last = [op |-> None]
    /\ th = [t \in Threads |-> Idle]

\* a function inside another one, listed first; any comment texts
CommInit ==
    /\ tag_types = [v \in Views |-> {}]
    /\ tags = [v \in Views |-> EmptyBag]
    /\ server = None
    /\ listeners = 0
    /\ workers = 0
    /\ shutdown_request = FALSE
    /\ queue = <<>>
    /\ running = <<>>
    /\ ui = "idle"
    /\ last = NoOp
    /\ toggled = [v \in Views |-> {}]
    /\ event = None
    /\ todo = <<>>
    /\ ran = <<>>
    /\ failed = {}
    /\ cache = [c \in Caches |-> "empty"]
    /\ reachable = FALSE
    /\ alive = FALSE
    /\ runtime_base = 0
    /\ static_base = 0
    /\ cl_last = [op |-> None]
    /\ \E inner \in Texts, outer \in Texts :
           funcs = <<Func("helper", 1, 2, inner), Func("main", 0, MaxEnd, outer)>>
    /\ comment \in Texts
    /\ q_last = [op |-> None]
    /\ th = [t \in Threads |-> Idle]

\* the server started on a view
ThInit ==
    /\ tag_types = [v \in Views |-> IF v = ThView THEN init({}) ELSE {}]
    /\ tags = [v \in Views |-> EmptyBag]
    /\ server = ThView
    /\ listeners = 1
    /\ workers = 1
    /\ shutdown_request = FALSE
    /\ queue = <<>>
    /\ running = <<>>
    /\ ui = "idle"
    /\ last = NoOp
    /\ toggled = [v \in Views |-> {}]
    /\ event = None
    /\ todo = <<>>
    /\ ran = <<>>
    /\ failed = {}
    /\ cache = [c \in Caches |-> "empty"]
    /\ reachable = FALSE
    /\ alive = FALSE
    /\ runtime_base = 0
    /\ static_base = 0
    /\ cl_last = [op |-> None]
    /\ funcs = <<>>
    /\ comment = <<>>
    /\ q_last = [op |-> None]
    /\ th = [t \in Threads |-> Idle]

\* the plugin inside the analysis tool, one synchronous client
Next == TagNext
Spec == Init /\ [][Next]_vars

\* the plugin inside the analysis tool, concurrent clients
SpecRpc == Init /\ [][RpcNext]_vars

\* the same, the threads being scheduled: the worker goes on with the request
\* it executes and leaves serve_forever once the flag is set; stop_server
\* goes on once shutdown() has returned
SpecRpcFair ==
    /\ Init /\ [][RpcNext]_vars
    /\ WF_vars(RpcStep)
    /\ WF_vars(serve_forever_exit)
    /\ WF_vars(stop_server_close)

\* the plugin's two threads, interleaved call by call
SpecThreads == ThInit /\ [][ThNext]_vars

\* the debugger's event dispatch and caches
SpecEvents == Init /\ [][EvNext]_vars

\* the debugger's commands and functions
SpecClient == ClInit /\ [][ClNext]_vars

\* the queries on functions
SpecQuery == QInit /\ [][QNext]_vars

\* the query on comments
SpecComments == CommInit /\ [][CommNext]_vars

\* ------------------------------------------------------------ properties
PcRefs(tg) == OfType(tg, PcTag)
BpRefs(tg) == OfType(tg, BpTag)
BpAt(tg, a) == AtAddr(OfType(tg, BpTag), a)
NotBpAt(tg, a) ==
    [x \in {y \in BagToSet(tg) : ~(y.type = BpTag /\ y.addr = a)} |-> tg[x]]
Initialized(bv) == {PcTag, BpTag} \subseteq tag_types[bv]
TagOps == {"clear_pc_tag", "update_pc_tag", "get_bp_tags", "toggle_breakpoint"}

\* C3: in every state reached by clear_pc_tag, update_pc_tag and
\* toggle_breakpoint calls from tag-free views (the states between the two
\* statements of update_pc_tag included), a view holds at most one PC tag.
C3_AtMostOnePcTag ==
    \A bv \in Views : BagCardinality(PcRefs(tags[bv])) <= 1

\* an update_pc_tag has just returned on a view that also holds breakpoint tags
C3_Witness ==
    /\ last.op = "update_pc_tag"
    /\ last.ok
    /\ BagCardinality(PcRefs(tags[last.bv])) = 1
    /\ BpRefs(tags[last.bv]) # EmptyBag

\* C4: when update_pc_tag(a) returns, the PC tags of the view are exactly one
\* tag, at a; and running update_pc_tag(a) again from that state (clear, then
\* add) gives back the very same tags.
C4_UpdatePcTag ==
    (last.op = "update_pc_tag" /\ last.ok) =>
        LET ty == tag_types[last.bv]
            tg == tags[last.bv]
            c  == clear_pc_tag(ty, tg)
            r  == update_pc_tag_add(ty, c.tags, last.addr)
        IN  /\ PcRefs(tg) = SetToBag({TagRef(PcTag, last.addr, "current pc")})
            /\ c.ok /\ r.ok
            /\ r.tags = tg

\* update_pc_tag(2) has just returned, replacing nothing but the PC tag
C4_Witness ==
    /\ last.op = "update_pc_tag"
    /\ last.ok
    /\ last.addr = 2
    /\ BpAt(tags[last.bv], 1) # EmptyBag

\* C5: from every reachable tag state and for every address a, two
\* toggle_breakpoint(a) in a row give back the breakpoint tags there were;
\* in particular, after a toggle_breakpoint(a) that has just run, a second
\* one restores the breakpoint tags of before the first.
C5_ToggleTwice ==
    /\ \A bv \in Views, a \in Addrs :
         LET r1 == toggle_breakpoint(tag_types[bv], tags[bv], a)
             r2 == toggle_breakpoint(tag_types[bv], r1.tags, a)
         IN  r1.ok => (r2.ok /\ BpRefs(r2.tags) = BpRefs(tags[bv]))
    /\ (last.op = "toggle_breakpoint" /\ last.ok) =>
         LET r == toggle_breakpoint(tag_types[last.bv], tags[last.bv], last.addr)
         IN  r.ok /\ BpRefs(r.tags) = BpRefs(last.before)

\* a toggle has just removed the tag at its address, another address is tagged
C5_Witness ==
    /\ last.op = "toggle_breakpoint"
    /\ last.ok
    /\ BpAt(last.before, last.addr) # EmptyBag
    /\ BpRefs(tags[last.bv]) # EmptyBag

\* C6: toggle_breakpoint(a) removes every Breakpoint tag at a when there is
\* one and otherwise creates exactly one, and touches no other tag; so the
\* addresses get_bp_tags returns are exactly those toggled an odd number of
\* times.
C6_ToggleEffect ==
    /\ (last.op = "toggle_breakpoint" /\ last.ok) =>
         LET tg == tags[last.bv]
         IN  /\ NotBpAt(tg, last.addr) = NotBpAt(last.before, last.addr)
             /\ BagCardinality(BpAt(tg, last.addr)) =
                  IF BpAt(last.before, last.addr) # EmptyBag THEN 0 ELSE 1
    /\ \A bv \in Views :
         Initialized(bv) =>
           LET r == get_bp_tags(tag_types[bv], tags[bv])
           IN  r.ok /\ BagToSet(r.ret) = toggled[bv]
    /\ (last.op = "get_bp_tags" /\ last.ok) =>
         BagToSet(last.ret) = toggled[last.bv]

\* get_bp_tags has just returned exactly {2} (1 was toggled twice)
C6_Witness ==
    /\ last.op = "get_bp_tags"
    /\ last.ok
    /\ BagToSet(last.ret) = {2}
    /\ toggled[last.bv] = {2}

\* C7: the server executes one request at a time: while a request is being
\* executed no other is, so no request runs between the clear and the add of
\* an update_pc_tag; the others wait in the queue.
C7_Serialized ==
    /\ Len(running) <= 1
    /\ \A i, j \in 1..Len(running) :
         (i # j) => running[i].pc # "cleared"

\* an update_pc_tag is between its two statements and a request waits
C7_Witness ==
    /\ Len(running) = 1
    /\ running[1].op = "update_pc_tag"
    /\ running[1].pc = "cleared"
    /\ queue # <<>>

\* C8: start_server on the view the server is bound to changes nothing of the
\* server, the listener, the worker, the tag types and the tags; stop_server
\* with no server changes nothing; there is never more than one listener or
\* worker.
C8_StartStopNoOp ==
    /\ [](listeners <= 1 /\ workers <= 1)
    /\ [][\A bv \in Views :
            /\ (start_server(bv) /\ server = bv) =>
                  UNCHANGED <<tag_types, tags, server, listeners, workers,
                              shutdown_request, queue, running, ui, toggled>>
            /\ (stop_server(bv) /\ server = None) =>
                  UNCHANGED <<tag_types, tags, server, listeners, workers,
                              shutdown_request, queue, running, ui, toggled>>]_vars

\* start_server has just run on the view the server was already bound to
C8_Witness ==
    /\ last.op = "start_server"
    /\ last.srv = last.bv
    /\ tags[last.bv] # EmptyBag

\* C10: a tag operation on a view without the tag types raises: it returns no
\* result and the view's tags are what they were.
C10_UninitializedFails ==
    /\ (last.op \in TagOps /\ ~Initialized(last.bv)) =>
         /\ ~last.ok
         /\ last.ret = EmptyBag
         /\ tags[last.bv] = last.before
    /\ \A bv \in Views, a \in Addrs :
         LET tg == tags[bv]
             outs == {clear_pc_tag({}, tg), update_pc_tag_add({}, tg, a),
                      get_bp_tags({}, tg), toggle_breakpoint({}, tg, a)}
         IN  \A r \in outs : ~r.ok /\ r.ret = EmptyBag /\ r.tags = tg

\* toggle_breakpoint has just raised on a view start_server never ran on
C10_Witness ==
    /\ last.op = "toggle_breakpoint"
    /\ ~Initialized(last.bv)
    /\ ~last.ok

StopCaches == {c \in Caches : CacheGroup[c] = "stop"}
ForeverCaches == {c \in Caches : CacheGroup[c] = "forever"}
Names_(hs) == [i \in 1..Len(hs) |-> hs[i].h]

\* C1: while a stop event is dispatched, from the moment a handler other
\* than a cache-clearing one is next to run (or has run), no cache of group
\* "stop" holds a value cached before the event; and no step of a dispatch
\* empties or changes a filled cache of group "forever".
C1_StopCachesCleared ==
    /\ [](event = "stop" =>
            \/ todo # <<>> /\ Head(todo).clears # None
            \/ \A c \in StopCaches : cache[c] # "stale")
    /\ [][\A c \in ForeverCaches :
            (event' # None /\ cache[c] # "empty") =>
                cache'[c] = (IF event = None /\ cache[c] = "fresh"
                               THEN "stale" ELSE cache[c])]_vars

\* on_stop is next to run in a stop dispatch: the "stop" cache, filled before
\* the event, is empty and the "forever" cache still holds its old value
C1_Witness ==
    /\ event = "stop"
    /\ todo # <<>>
    /\ Head(todo).h = "on_stop"
    /\ cache["c_stop"] = "empty"
    /\ cache["c_forever"] = "stale"
    /\ cache["c_cont"] = "stale"

\* C2: in a dispatch the handlers that ran and those still to run are, in
\* order, all the handlers of the event, whichever of them raised; a handler
\* that raised is in the log; so the dispatch ends with every handler run.
C2_DispatchContinues ==
    (event # None) =>
        /\ ran \o Names_(todo) = Names_(HandlersFor(event))
        /\ failed \subseteq {ran[i] : i \in 1..Len(ran)}
        /\ (todo = <<>> => Len(ran) = Len(HandlersFor(event)))

\* a stop dispatch has ended: update_typeinfo raised, on_stop ran after it
C2_Witness ==
    /\ event = "stop"
    /\ todo = <<>>
    /\ "update_typeinfo" \in failed
    /\ ran = <<"clear", "update_typeinfo", "update_arch", "on_stop">>

\* C9: bn_sync, bn_sym and bn_eval called while the analysis tool cannot be
\* reached return None: no exception reaches the caller.
C9_UnreachableIsAbsent ==
    (cl_last.op # None /\ ~cl_last.reach) => cl_last.res = RNone

\* bn_sym was called for a name the tool knows, with the tool unreachable and
\* the debuggee running
C9_Witness ==
    /\ cl_last.op = "bn_sym"
    /\ cl_last.arg = "main"
    /\ ~cl_last.reach
    /\ alive
    /\ cl_last.res = RNone

\* C11: for every address x and every list of functions, overlapping or not,
\* get_func_info(x) is absent exactly when no function contains x, and is
\* otherwise the name and start of a function containing x whose start no
\* other function containing x is below.
C11_WidestFunction ==
    (q_last.op = "get_func_info") =>
        LET x == q_last.addr
            containing == {i \in DOMAIN funcs : Contains(funcs[i], x)}
        IN  IF containing = {} THEN q_last.ret = Absent
            ELSE /\ q_last.ret # Absent
                 /\ \E i \in containing :
                        /\ q_last.ret = <<funcs[i].name, funcs[i].start>>
                        /\ \A j \in containing : funcs[i].start <= funcs[j].start

\* get_func_info answered for an address inside two functions, the wider of
\* which the database lists second
C11_Witness ==
    /\ q_last.op = "get_func_info"
    /\ Len(funcs) = 2
    /\ Contains(funcs[1], q_last.addr)
    /\ Contains(funcs[2], q_last.addr)
    /\ funcs[2].start < funcs[1].start
    /\ funcs[2].name # funcs[1].name
    /\ q_last.ret = <<funcs[2].name, funcs[2].start>>

\* C12: get_func_type(x) has a result exactly when some function starts at
\* x; for an address inside a function's body where no function starts it is
\* absent, while get_func_info(x) answers with the containing function.
C12_FuncTypeAtStartOnly ==
    (q_last.op = "get_func_type") =>
        LET x == q_last.addr
            starts == \E i \in DOMAIN funcs : funcs[i].start = x
            inside == \E i \in DOMAIN funcs : Contains(funcs[i], x)
        IN  /\ (q_last.ret # Absent) <=> starts
            /\ (inside /\ ~starts) =>
                   (q_last.ret = Absent /\ get_func_info(funcs, x) # Absent)

\* get_func_type asked for an address in the body of a function, not its start
C12_Witness ==
    /\ q_last.op = "get_func_type"
    /\ \E i \in DOMAIN funcs : Contains(funcs[i], q_last.addr)
    /\ \A i \in DOMAIN funcs : funcs[i].start # q_last.addr
    /\ q_last.ret = Absent

\* where the non-empty lines of a text start, and where the one from i ends
LineStarts(s) == {i \in DOMAIN s : s[i] # NL /\ (i = 1 \/ s[i - 1] = NL)}
LineEnd(s, i) ==
    CHOOSE j \in i..Len(s) :
        /\ \A k \in i..j : s[k] # NL
        /\ j = Len(s) \/ s[j + 1] = NL

\* the non-empty lines of a text in their order, each behind the marker
MarkedLines(s) ==
    LET nth(k) == CHOOSE i \in LineStarts(s) :
                      Cardinality({j \in LineStarts(s) : j < i}) = k - 1
    IN  [k \in 1..Cardinality(LineStarts(s)) |->
            Marker \o SubSeq(s, nth(k), LineEnd(s, nth(k)))]

\* the functions containing addr, by ascending start
ByStart(addr) ==
    LET containing == {i \in DOMAIN funcs : Contains(funcs[i], addr)}
        below(i) == {j \in containing :
                        \/ funcs[j].start < funcs[i].start
                        \/ funcs[j].start = funcs[i].start /\ j < i}
    IN  [k \in 1..Cardinality(containing) |->
            funcs[CHOOSE i \in containing : Cardinality(below(i)) = k - 1]]

RECURSIVE LinesOfAll(_)
LinesOfAll(fs) ==
    IF fs = <<>> THEN <<>>
    ELSE MarkedLines(Head(fs).comment) \o LinesOfAll(Tail(fs))

ClAddrs == (0 - MaxBase)..(2 * MaxBase + 2)

\* C13: for every pair of bases and every runtime address x, translating x to
\* a static address (l2r) and back to a runtime address (r2l, the translation
\* bn_sym applies to what the analysis tool answers) gives x again.
C13_RoundTrip ==
    /\ \A x \in ClAddrs : r2l(l2r(x)) = x
    /\ (cl_last.op = "bn_sym" /\ cl_last.res.kind = "int") =>
           r2l(l2r(cl_last.res.val)) = cl_last.res.val

\* bn_sym has returned a runtime address of an image loaded away from its
\* static base
C13_Witness ==
    /\ cl_last.op = "bn_sym"
    /\ cl_last.res.kind = "int"
    /\ runtime_base # static_base
    /\ l2r(cl_last.res.val) # cl_last.res.val
    /\ r2l(l2r(cl_last.res.val)) = cl_last.res.val

\* the groups whose caches an event is to clear
Subscribed(e) ==
    CASE e \in {"mem_changed", "reg_changed"} -> {"stop", "cont"}
      [] e = "stop" -> {"stop"}
      [] e = "cont" -> {"cont"}
      [] OTHER -> {g \in DOMAIN GroupEvents :
                      \E i \in DOMAIN GroupEvents[g] : GroupEvents[g][i] = e}

Expected(e) ==
    CASE e = "start" -> <<"update_typeinfo", "update_arch", "on_start">>
      [] e = "stop" -> <<"update_typeinfo", "update_arch", "on_stop">>
      [] e = "new_objfile" -> <<"update_typeinfo", "update_arch", "reset_config">>
      [] e = "exit" -> <<"on_exit">>
      [] OTHER -> <<>>

RECURSIVE NotClear(_)
\* the handlers of a dispatch, the cache-clearing ones left out
NotClear(hs) ==
    IF hs = <<>> THEN <<>>
    ELSE IF Head(hs) = "clear" THEN NotClear(Tail(hs))
         ELSE <<Head(hs)>> \o NotClear(Tail(hs))

C16_SecondViewIgnored ==
    [][/\ \A bv \in Views :
            (start_server(bv) /\ server \notin {None, bv}) =>
                /\ UNCHANGED <<tags, server, listeners, workers,
                               shutdown_request, queue, running, ui, toggled>>
                /\ tag_types'[server] = tag_types[server]
       /\ RpcStep =>
            /\ server # None
            /\ \A v \in Views \ {server} : tags'[v] = tags[v]
            /\ last'.op # None =>
                  /\ last'.bv = server
                  /\ last'.before = tags[server]
            /\ last'.op = "get_bp_tags" =>
                  last'.ret = get_bp_tags(tag_types[server], tags[server]).ret
       /\ (server' # server /\ server' # None) =>
            /\ server = None
            /\ last'.op = "start_server"
            /\ last'.bv = server'
       /\ (server' # server /\ server' = None) => last'.op = "stop_server"]_vars

\* start_server has just run on a second view: the server is still bound to
\* the first, whose breakpoint tags the second view does not have
C16_Witness ==
    /\ last.op = "start_server"
    /\ last.srv \notin {None, last.bv}
    /\ server = last.srv
    /\ BpRefs(tags[server]) # EmptyBag
    /\ tags[last.bv] = EmptyBag
    /\ Initialized(last.bv)

\* C17: once stop_server has asked a running server to shut down, the worker
\* leaves its serve loop, the listener is closed and `server` is None again,
\* whatever request the worker was executing; and start_server with no server
\* bound binds the view it is given, with one listener and one worker.
C17_StopTearsDown ==
    /\ (ui = "stopping") ~>
           (ui = "idle" /\ server = None /\ listeners = 0 /\ workers = 0)
    /\ [][\A bv \in Views :
            (start_server(bv) /\ server = None) =>
                /\ server' = bv
                /\ listeners' = 1
                /\ workers' = 1
                /\ ~shutdown_request']_vars

\* start_server has bound a server anew on a view that holds a PC tag, the
\* trace of an earlier server that has been stopped
C17_Witness ==
    /\ last.op = "start_server"
    /\ last.srv = None
    /\ server = last.bv
    /\ listeners = 1
    /\ workers = 1
    /\ PcRefs(tags[server]) # EmptyBag

\* C19: whatever the interleaving of the two threads, no step of clear_pc_tag,
\* update_pc_tag or get_bp_tags on the worker adds or removes a breakpoint
\* tag, and no step of toggle_breakpoint adds or removes a PC tag.
C19_TagKindsIndependent ==
    [][/\ ThStep("worker") =>
            BpRefs(tags'[ThView]) = BpRefs(tags[ThView])
       /\ ThStep("ui") =>
            PcRefs(tags'[ThView]) = PcRefs(tags[ThView])]_vars

\* toggle_breakpoint(1) has removed its tag and has more references to look
\* at, while update_pc_tag(1) on the worker has removed the old PC tag and
\* not yet added the new one
C19_Witness ==
    /\ th["ui"].op = "toggle_breakpoint"
    /\ th["ui"].addr = 1
    /\ th["ui"].at = "loop"
    /\ th["ui"].found
    /\ th["ui"].refs # <<>>
    /\ th["worker"].op = "update_pc_tag"
    /\ th["worker"].addr = 1
    /\ th["worker"].at = "add"
    /\ PcRefs(tags[ThView]) = EmptyBag
    /\ BpRefs(tags[ThView]) # EmptyBag

\* C20: in every state reached from views without breakpoint tags by
\* toggle_breakpoint calls made one after another (with start_server,
\* stop_server and RPC calls in between), no address of a view carries more
\* than one breakpoint tag, and get_bp_tags returns no address twice.
C20_NoDuplicateBreakpoints ==
    /\ \A bv \in Views, a \in Addrs : BagCardinality(BpAt(tags[bv], a)) <= 1
    /\ (last.op = "get_bp_tags" /\ last.ok) =>
           \A a \in BagToSet(last.ret) : last.ret[a] = 1

\* get_bp_tags has just returned the two addresses toggle_breakpoint has
\* tagged
C20_Witness ==
    /\ last.op = "get_bp_tags"
    /\ last.ok
    /\ BagToSet(last.ret) = {1, 2}
    /\ toggled[last.bv] = {1, 2}
    /\ BagCardinality(BpRefs(tags[last.bv])) = 2

====
